---- MODULE Spec2Model ----
(***************************************************************************)
(* The diagnostic reasoning pipeline of computational_implementation: the  *)
(* StateGraph built by graph_definition, its six nodes and two routers,    *)
(* the query_* phase functions behind the nodes, and the run loop of       *)
(* run_with_human_log (a LangGraph stream with recursion_limit 60).        *)
(*                                                                         *)
(* The language-model backend (ollama.chat behind call_llm) is the only    *)
(* source of nondeterminism besides random.sample: call_llm returns        *)
(* json.loads of the reply WITHOUT validating it against response_format,  *)
(* so an answer is any value of the right shape; its diagnoses, ranks and  *)
(* length are whatever the backend wrote.  A reply the code cannot use     *)
(* (no valid JSON after the retries, a missing key) raises and is the      *)
(* action NodeFails.                                                       *)
(***************************************************************************)
EXTENDS Integers, Sequences, FiniteSets, TLC

\* ------------------------------------------------------------------ bounds
\* longest hypothesis list a backend answer carries
MaxHyp == 2
\* longest list of unfocused families a backend answer carries
MaxUnfocused == 1
\* largest rank value a backend answer carries
MaxRank == 2
\* largest top_k given in the inputs
MaxTopK == 1
\* features per abstraction answer, findings per feature
MaxFeatures == 1
MaxFindings == 1
\* functions applied on their own: longest list given, largest top_k given
MaxCallLen == 4
MaxCallTopK == 3
\* longest ranking sorted on its own
MaxSortLen == 3
\* reorder_hypotheses_like: longest output_hypotheses, longest input_diagnoses
MaxReorderOut == 3
MaxReorderIn == 2
\* largest iter a test harness starts a run with
MaxStartIter == 1
\* number of executed supersteps after which the stream raises GraphRecursionError
RecursionLimit == 60
\* query_deduction: the rank its sort takes for a hypothesis that has none
NoRank == 1000000000
\* call_llm's max_retries: the attempts made before it gives up
MaxRetries == 10

\* ------------------------------------------------------------ data domains
Diagnoses == {"a", "b"}
Families == {"fam"}
Evaluations == {"plausible", "refuted"}
Ranks == 1..MaxRank
NodeNames == {"abstraction", "abduction_unfocused", "abduction_focused",
              "ranking", "deduction", "induction"}

\* all sequences over S of length at most n
SeqsUpTo(S, n) == UNION {[1..k -> S] : k \in 0..n}

\* DiagnosticHypothesis (explanation and supporting_features carry no control
\* or data dependency and are left out)
DiagnosticHypothesis == [diagnosis : Diagnoses]
UnfocusedHypothesis == [diagnosis : Families]
\* RankedDiagnosticHypothesis: diagnosis and position.rank (an unvalidated int)
RankedDiagnosticHypothesis == [diagnosis : Diagnoses, position : [rank : Ranks]]
\* HypothesisDeduction
HypothesisDeduction == [diagnosis : Diagnoses]
\* EvaluatedHypothesis
EvaluatedHypothesis == [diagnosis : Diagnoses, evaluation : Evaluations]
\* AbstractionFeature of AbstractionFeaturesList
AbstractionFeature == [category : {"Investigations"},
                       findings : SeqsUpTo([finding : {"f"}, explanation : {"e"}], MaxFindings)]

\* ------------------------------------------------------------------- state
VARIABLES
  state,     \* the graph's channels: a dict, a function from the keys present to values
  next,      \* the nodes triggered for the next superstep
  step,      \* number of node supersteps executed so far
  status,    \* "running", "done", "failed" (a node raised), "out_of_steps"
  trace,     \* names of the executed nodes, in order
  exec,      \* the last node step: node, hypotheses given, raw answer, patch
  inputs,    \* the inputs dict passed to run_with_human_log
  harness,   \* what a test replaced: router 2, the query_* functions or the backend
  attempts,  \* call_llm: invalid-JSON replies so far in the call of the next node
  log,       \* titles of the entries written to the log file, in order
  result,    \* what run_with_human_log gave its caller: nothing yet, a return, a raise
  call       \* a function applied on its own: its name, arguments and result

vars == <<state, next, step, status, trace, exec, inputs, harness,
          attempts, log, result, call>>

\* dict.get(k) is None
IsNone(s, k) == k \notin DOMAIN s

\* dict.get(k, default)
Get(s, k, default) == IF k \in DOMAIN s THEN s[k] ELSE default

\* mutant of Merge: a key already present keeps its value
MergeKeepsPresent(s, patch) ==
  [k \in (DOMAIN s) \cup (DOMAIN patch) |-> IF k \in DOMAIN s THEN s[k] ELSE patch[k]]

\* LangGraph's update of the LastValue channels by a node's patch: every key of
\* the patch is overwritten, every other key is kept
Merge(s, patch) ==
  [k \in (DOMAIN s) \cup (DOMAIN patch) |-> IF k \in DOMAIN patch THEN patch[k] ELSE s[k]]

\* an absent dict (no key present); also the patch that writes nothing
EmptyDict == [k \in {} |-> TRUE]

\* A Python value that may be None: [value |-> v], or a record without "value"
\* for None.  A None written to a channel reads back as None from s.get(k), as
\* an absent key does, so the model keeps the key absent.
Some(v) == [value |-> v]
NoneValue == [none |-> TRUE]
IsSome(o) == "value" \in DOMAIN o

\* ------------------------------------------------------- phase functions
\* abstraction_postprocessing: one flat item per finding, features in order
RECURSIVE abstraction_postprocessing(_)
abstraction_postprocessing(features) ==
  IF features = <<>> THEN <<>>
  ELSE LET feature == Head(features)
           flattened == [i \in 1..Len(feature.findings) |->
                           [category |-> feature.category,
                            finding |-> feature.findings[i].finding,
                            explanation |-> feature.findings[i].explanation]]
       IN flattened \o abstraction_postprocessing(Tail(features))

\* query_abstraction: call_llm, then the postprocessing; always a list
query_abstraction(answer) == abstraction_postprocessing(answer.features)

\* query_abduction_unfocused: the answer as call_llm returned it
query_abduction_unfocused(answer) == answer

\* mutant of Samples: random.choices, positions drawn with replacement
SamplesWithReplacement(population, k) ==
  {[i \in 1..k |-> population[pick[i]]] : pick \in [1..k -> 1..Len(population)]}

\* random.sample(population, k): k distinct positions, in the order drawn
Samples(population, k) ==
  {[i \in 1..k |-> population[pick[i]]] :
     pick \in {p \in [1..k -> 1..Len(population)] :
                 \A i, j \in 1..k : i # j => p[i] # p[j]}}

\* mutant of query_abduction_focused: the test is ">= max_focused", a list of
\* exactly max_focused hypotheses is sampled too
query_abduction_focused_samples_at_limit(answer, max_focused) ==
  IF Len(answer.hypotheses) >= max_focused
  THEN {[hypotheses |-> smp] : smp \in Samples(answer.hypotheses, max_focused)}
  ELSE {answer}

\* query_abduction_focused: the possible results; more than max_focused
\* hypotheses are cut down to max_focused by random.sample
query_abduction_focused(answer, max_focused) ==
  IF Len(answer.hypotheses) > max_focused
  THEN {[hypotheses |-> smp] : smp \in Samples(answer.hypotheses, max_focused)}
  ELSE {answer}

\* mutant of InsertByRank: an unstable sort, h goes in front of its equals
RECURSIVE InsertByRankBeforeEquals(_, _)
InsertByRankBeforeEquals(h, sorted) ==
  IF sorted = <<>> THEN <<h>>
  ELSE IF Head(sorted).position.rank < h.position.rank
       THEN <<Head(sorted)>> \o InsertByRankBeforeEquals(h, Tail(sorted))
       ELSE <<h>> \o sorted

\* sorted(..., key=rank) and list.sort(key=rank): Python's sort is stable;
\* InsertByRank puts h behind every element whose rank is not larger
RECURSIVE InsertByRank(_, _)
InsertByRank(h, sorted) ==
  IF sorted = <<>> THEN <<h>>
  ELSE IF Head(sorted).position.rank <= h.position.rank
       THEN <<Head(sorted)>> \o InsertByRank(h, Tail(sorted))
       ELSE <<h>> \o sorted

\* mutant of SortByRank: the list is left in the order the backend gave it
SortByRankOmitted(hyps) == hyps

RECURSIVE SortByRank(_)
SortByRank(hyps) ==
  IF hyps = <<>> THEN <<>>
  ELSE InsertByRank(hyps[Len(hyps)], SortByRank(SubSeq(hyps, 1, Len(hyps) - 1)))

\* query_rank_hypotheses, is_post_induction: some hypothesis given has an
\* induction field, evaluation or evaluated_findings, and the prompt is then
\* built from those fields
is_post_induction(hypotheses) ==
  \E i \in 1..Len(hypotheses) :
    \/ "evaluation" \in DOMAIN hypotheses[i]
    \/ "evaluated_findings" \in DOMAIN hypotheses[i]

\* query_rank_hypotheses: the answer's hypotheses sorted by position.rank
query_rank_hypotheses(answer) == [hypotheses |-> SortByRank(answer.hypotheses)]

\* mutant of deduction_rank: the default of the key is 0, a hypothesis with
\* no rank sorts first
deduction_rank_default_first(h) ==
  IF "position" \in DOMAIN h /\ "rank" \in DOMAIN h.position
  THEN h.position.rank ELSE 0

\* query_deduction, the key of its sort:
\* h.get("position", {}).get("rank", 10**9)
deduction_rank(h) ==
  IF "position" \in DOMAIN h /\ "rank" \in DOMAIN h.position
  THEN h.position.rank ELSE NoRank

\* sorted(ranked_hypotheses, key=...): stable, h goes behind every element
\* whose key is not larger
RECURSIVE InsertByDeductionRank(_, _)
InsertByDeductionRank(h, sorted) ==
  IF sorted = <<>> THEN <<h>>
  ELSE IF deduction_rank(Head(sorted)) <= deduction_rank(h)
       THEN <<Head(sorted)>> \o InsertByDeductionRank(h, Tail(sorted))
       ELSE <<h>> \o sorted

RECURSIVE SortByDeductionRank(_)
SortByDeductionRank(hyps) ==
  IF hyps = <<>> THEN <<>>
  ELSE InsertByDeductionRank(hyps[Len(hyps)],
                             SortByDeductionRank(SubSeq(hyps, 1, Len(hyps) - 1)))

\* query_deduction, ranked_hypotheses: the ranking sorted by rank again, a
\* hypothesis with no position or no rank taken as rank 10**9; the list the
\* prompt and the DiagnosisEnum are built from
DeductionGiven(ranking_output) == SortByDeductionRank(ranking_output.hypotheses)

\* query_deduction, [x["diagnosis"] for x in ranked_hypotheses]: the
\* diagnosis list of the response format
DeductionDiagnoses(ranking_output) ==
  [i \in 1..Len(ranking_output.hypotheses) |-> DeductionGiven(ranking_output)[i].diagnosis]

\* query_deduction: the answer as call_llm returned it
query_deduction(answer) == answer

\* mutant of InductionPlausible: the test of the evaluation is left out
InductionUnfiltered(answer) == [hypotheses |-> answer.hypotheses]

\* query_induction, filtered_answer: the hypotheses evaluated plausible, in order
InductionPlausible(answer) ==
  [hypotheses |-> SelectSeq(answer.hypotheses, LAMBDA h : h.evaluation = "plausible")]

\* query_induction: (answer, filtered_answer)
query_induction(answer) == <<answer, InductionPlausible(answer)>>

\* --------------------------------------------------------- backend answers
\* What json.loads of the backend's reply can be, per response_format; under
\* a test harness the query_* functions are doubles with fixed results.
Stubbed == harness.executor = "stub"

AbstractionAnswers == [features : SeqsUpTo(AbstractionFeature, MaxFeatures)]
UnfocusedAnswers == [hypotheses : SeqsUpTo(UnfocusedHypothesis, MaxUnfocused)]
FocusedAnswers == [hypotheses : SeqsUpTo(DiagnosticHypothesis, MaxHyp)]
RankingAnswers == [hypotheses : SeqsUpTo(RankedDiagnosticHypothesis, MaxHyp)]
DeductionAnswers == [hypotheses : SeqsUpTo(HypothesisDeduction, MaxHyp)]
InductionAnswers == [hypotheses : SeqsUpTo(EvaluatedHypothesis, MaxHyp)]

\* a double of the backend that has one well-formed reply per phase
Canned == harness.executor = "canned"
CannedAbstraction ==
  [features |-> <<[category |-> "Investigations",
                   findings |-> <<[finding |-> "f", explanation |-> "e"]>>]>>]
CannedUnfocused == [hypotheses |-> <<[diagnosis |-> "fam"]>>]
CannedFocused == [hypotheses |-> <<[diagnosis |-> "a"], [diagnosis |-> "b"]>>]
CannedRanking == [hypotheses |-> <<[diagnosis |-> "b", position |-> [rank |-> 2]],
                                   [diagnosis |-> "a", position |-> [rank |-> 1]]>>]
CannedDeduction == [hypotheses |-> <<[diagnosis |-> "a"], [diagnosis |-> "b"]>>]
CannedInduction == [hypotheses |-> <<[diagnosis |-> "a", evaluation |-> "plausible"],
                                     [diagnosis |-> "b", evaluation |-> "refuted"]>>]

\* what call_llm returns: any answer of the phase, or the double's reply
Replies(answers, canned) == IF Canned THEN {canned} ELSE answers

\* the doubles' results; the abstraction double may return None
StubAbstraction ==
  {NoneValue, Some(<<>>),
   Some(<<[category |-> "Investigations", finding |-> "f", explanation |-> "e"]>>)}
StubUnfocused == [hypotheses |-> <<[diagnosis |-> "fam"]>>]
StubFocused == [hypotheses |-> <<[diagnosis |-> "a"]>>]
StubRanking == [hypotheses |-> <<[diagnosis |-> "a", position |-> [rank |-> 1]]>>]
StubDeduction == [hypotheses |-> <<[diagnosis |-> "a"]>>]
StubInduction == [hypotheses |-> <<[diagnosis |-> "a", evaluation |-> "plausible"]>>]

\* ------------------------------------------------------------------- nodes
\* mutant of n_abstraction: {"abstraction": out or None}, an empty list is
\* written as None
n_abstraction_empty_as_none(out) ==
  IF IsSome(out) /\ out.value # <<>> THEN [abstraction |-> out.value] ELSE EmptyDict

\* n_abstraction: the patch {"abstraction": out}
n_abstraction(out) == IF IsSome(out) THEN [abstraction |-> out.value] ELSE EmptyDict

\* mutant of route_after_abstraction: the test is "if s.get('abstraction')",
\* which an empty list fails
route_after_abstraction_truthy(s) ==
  IF ~IsNone(s, "abstraction") /\ s.abstraction # <<>> THEN "continue" ELSE "end"

\* route_after_abstraction
route_after_abstraction(s) == IF ~IsNone(s, "abstraction") THEN "continue" ELSE "end"

\* n_abduction_unfocused: writes top_k back beside the hypotheses
n_abduction_unfocused(s, out) == [abduction_unfocused |-> out, top_k |-> s.top_k]

\* n_abduction_focused
n_abduction_focused(out) == [abduction_focused |-> out]

\* n_ranking, the condition of its first branch: induction present, not yet reranked
IsRerank(s) == ~IsNone(s, "induction") /\ ~Get(s, "reranked", FALSE)

\* mutant of RankingGiven: the rerank branch hands over the diagnoses alone
RankingGivenStripped(s) ==
  IF IsRerank(s)
  THEN [i \in 1..Len(s.induction.hypotheses) |->
          [diagnosis |-> s.induction.hypotheses[i].diagnosis]]
  ELSE IF IsNone(s, "abduction_focused") THEN <<>> ELSE s.abduction_focused.hypotheses

\* mutant of RankingGiven: both branches hand over abduction_focused
RankingGivenAlwaysFocused(s) ==
  IF IsNone(s, "abduction_focused") THEN <<>> ELSE s.abduction_focused.hypotheses

\* mutant of RankingGiven: the rerank branch hands over induction_plausible
RankingGivenPlausible(s) ==
  IF IsRerank(s) THEN s.induction_plausible.hypotheses
  ELSE IF IsNone(s, "abduction_focused") THEN <<>> ELSE s.abduction_focused.hypotheses

\* n_ranking: the hypotheses handed to query_rank_hypotheses as abduction_output
RankingGiven(s) ==
  IF IsRerank(s) THEN s.induction.hypotheses
  ELSE IF IsNone(s, "abduction_focused") THEN <<>> ELSE s.abduction_focused.hypotheses

\* mutant of n_ranking: every ranking counts as an iteration
n_ranking_counts_iter(s, out) ==
  [ranking |-> [hypotheses |-> SortByRank(out.hypotheses)], reranked |-> IsRerank(s),
   iter |-> Get(s, "iter", 0) + 1]

\* mutant of n_ranking: the rerank branch forgets to set reranked
n_ranking_flag_unset(s, out) ==
  [ranking |-> [hypotheses |-> SortByRank(out.hypotheses)], reranked |-> FALSE]

\* n_ranking: sorts the result of query_rank_hypotheses once more and writes it
\* with reranked = True in the rerank branch, reranked = False otherwise
n_ranking(s, out) ==
  [ranking |-> [hypotheses |-> SortByRank(out.hypotheses)], reranked |-> IsRerank(s)]

\* n_deduction
n_deduction(out) == [deduction |-> out]

\* mutant of n_induction: iter is written back as it was read
n_induction_iter_kept(s, outs) ==
  [induction |-> outs[1], induction_plausible |-> outs[2], iter |-> Get(s, "iter", 0)]

\* n_induction: both results of query_induction, and iter + 1
n_induction(s, outs) ==
  [induction |-> outs[1], induction_plausible |-> outs[2], iter |-> Get(s, "iter", 0) + 1]

\* mutant of route_after_ranking: an absent flag is taken as True
route_after_ranking_default_true(s) == IF Get(s, "reranked", TRUE) THEN "end" ELSE "continue"

\* mutant of route_after_ranking: the flag is ignored
route_after_ranking_ignores_flag(s) == "continue"

\* route_after_ranking
route_after_ranking(s) == IF Get(s, "reranked", FALSE) THEN "end" ELSE "continue"

\* the router registered on "ranking": the shipped one, or a test's faulty one
Router2(s) == IF harness.router2 = "always_continue" THEN "continue" ELSE route_after_ranking(s)

\* A node that raises whatever the backend answers: s["key"] on a missing key,
\* or a query function reading None (abstraction_output.copy(),
\* abduction_output.get).  The doubles read nothing.
Crashes(n, s) ==
  CASE n = "abduction_unfocused" -> ~Stubbed /\ IsNone(s, "abstraction")
    [] n = "abduction_focused" ->
         ~Stubbed /\ (IsNone(s, "abstraction") \/ IsNone(s, "abduction_unfocused"))
    [] n = "ranking" -> ~Stubbed /\ ~IsRerank(s) /\ IsNone(s, "abduction_focused")
    [] n = "deduction" -> IsNone(s, "ranking")
    [] n = "induction" -> IsNone(s, "deduction")
    [] OTHER -> FALSE

\* ------------------------------------------------------------------- graph
\* graph_definition: set_entry_point and the add_edge calls
EntryPoint == "abstraction"

\* mutant of Edges: the edge out of induction leads back to deduction
EdgesInductionToDeduction ==
  {<<"abstraction", "abduction_unfocused">>,
   <<"abduction_unfocused", "abduction_focused">>,
   <<"abduction_focused", "ranking">>,
   <<"deduction", "induction">>,
   <<"induction", "deduction">>}

Edges == {<<"abstraction", "abduction_unfocused">>,
          <<"abduction_unfocused", "abduction_focused">>,
          <<"abduction_focused", "ranking">>,
          <<"deduction", "induction">>,
          <<"induction", "ranking">>}

\* mutant of ConditionalEdges: router 1's "continue" is mapped to abduction_focused
ConditionalEdgesOtherTarget(n, s) ==
  CASE n = "abstraction" ->
         IF route_after_abstraction(s) = "continue" THEN {"abduction_focused"} ELSE {}
    [] n = "ranking" -> IF Router2(s) = "continue" THEN {"deduction"} ELSE {}
    [] OTHER -> {}

\* graph_definition: the add_conditional_edges calls; END triggers no node
ConditionalEdges(n, s) ==
  CASE n = "abstraction" ->
         IF route_after_abstraction(s) = "continue" THEN {"abduction_unfocused"} ELSE {}
    [] n = "ranking" -> IF Router2(s) = "continue" THEN {"deduction"} ELSE {}
    [] OTHER -> {}

\* The nodes triggered after node n ran and its patch was merged into s: the
\* targets of its plain edges, always, and the target its router selected.
Triggered(n, s) == {m \in NodeNames : <<n, m>> \in Edges} \cup ConditionalEdges(n, s)

\* ------------------------------------------------------------ the run loop
\* app.stream(inputs, {"recursion_limit": 60}) runs one superstep per tick.
\* The input-writing __start__ superstep is not counted in step; the loop
\* stops with out_of_steps once RecursionLimit node supersteps have run,
\* before it looks for further tasks.

\* NODE_TITLES: the title in the header of a node's log entry
NODE_TITLES ==
  [n \in NodeNames |->
     CASE n = "abstraction" -> "Abstraction Phase"
       [] n = "abduction_unfocused" -> "Abduction Phase (Unfocused)"
       [] n = "abduction_focused" -> "Abduction Phase (Focused)"
       [] n = "ranking" -> "Ranking Phase"
       [] n = "deduction" -> "Deduction Phase"
       [] n = "induction" -> "Induction Phase"]

\* node n is the task of the next superstep
Runs(n) == status = "running" /\ step < RecursionLimit /\ next = {n} /\ ~Crashes(n, state)

\* mutant of Commit: the "values" chunk of the step is written to the log as well
CommitLogsValues(n, patch, given, answer) ==
  /\ state' = Merge(state, patch)
  /\ next' = Triggered(n, Merge(state, patch))
  /\ step' = step + 1
  /\ trace' = Append(trace, n)
  /\ exec' = [node |-> n, given |-> given, answer |-> answer, patch |-> patch]
  /\ log' = log \o <<NODE_TITLES[n], NODE_TITLES[n]>>
  /\ attempts' = 0
  /\ UNCHANGED <<status, inputs, harness, result, call>>

\* the superstep of node n: its patch is merged, the nodes its edges trigger
\* become the next tasks, and the "updates" chunk goes to the log
Commit(n, patch, given, answer) ==
  /\ state' = Merge(state, patch)
  /\ next' = Triggered(n, Merge(state, patch))
  /\ step' = step + 1
  /\ trace' = Append(trace, n)
  /\ exec' = [node |-> n, given |-> given, answer |-> answer, patch |-> patch]
  /\ log' = Append(log, NODE_TITLES[n])
  /\ attempts' = 0
  /\ UNCHANGED <<status, inputs, harness, result, call>>

N_abstraction ==
  /\ Runs("abstraction")
  /\ \E out \in IF Stubbed THEN StubAbstraction
                ELSE {Some(query_abstraction(a)) :
                        a \in Replies(AbstractionAnswers, CannedAbstraction)} :
       Commit("abstraction", n_abstraction(out), <<>>, out)

N_abduction_unfocused ==
  /\ Runs("abduction_unfocused")
  /\ \E out \in IF Stubbed THEN {StubUnfocused}
                ELSE {query_abduction_unfocused(a) :
                        a \in Replies(UnfocusedAnswers, CannedUnfocused)} :
       Commit("abduction_unfocused", n_abduction_unfocused(state, out), <<>>, out)

N_abduction_focused ==
  /\ Runs("abduction_focused")
  /\ \/ /\ Stubbed
        /\ Commit("abduction_focused", n_abduction_focused(StubFocused), <<>>, StubFocused)
     \/ /\ ~Stubbed
        /\ \E a \in Replies(FocusedAnswers, CannedFocused) :
             \E out \in query_abduction_focused(a, Get(state, "top_k", 0)) :
               Commit("abduction_focused", n_abduction_focused(out),
                      state.abduction_unfocused.hypotheses, a)

N_ranking ==
  /\ Runs("ranking")
  /\ \E a \in IF Stubbed THEN {StubRanking} ELSE Replies(RankingAnswers, CannedRanking) :
       LET out == IF Stubbed THEN a ELSE query_rank_hypotheses(a)
       IN Commit("ranking", n_ranking(state, out), RankingGiven(state), a)

N_deduction ==
  /\ Runs("deduction")
  /\ \E a \in IF Stubbed THEN {StubDeduction}
                ELSE Replies(DeductionAnswers, CannedDeduction) :
       LET out == IF Stubbed THEN a ELSE query_deduction(a)
       IN Commit("deduction", n_deduction(out), DeductionGiven(state.ranking), a)

N_induction ==
  /\ Runs("induction")
  /\ \E a \in IF Stubbed THEN {StubInduction}
                ELSE Replies(InductionAnswers, CannedInduction) :
       LET outs == IF Stubbed THEN <<a, a>> ELSE query_induction(a)
       IN Commit("induction", n_induction(state, outs), state.deduction.hypotheses, a)

\* what run_with_human_log gives its caller when an exception leaves it: the
\* exception as raised, an error class and its message, nothing else
Raised(error) == [kind |-> "raised", error |-> error]

\* what run_with_human_log returns: final_state, the last "values" chunk
Returned(final_state) == [kind |-> "returned", final_state |-> final_state]

\* mutant of NodeFails: the exception is swallowed and the state so far returned
NodeFailsReturnsState ==
  /\ status = "running" /\ step < RecursionLimit /\ next # {}
  /\ status' = "failed"
  /\ result' = Returned(state)
  /\ UNCHANGED <<state, next, step, trace, exec, inputs, harness, attempts, log, call>>

\* mutant of NodeFails: call_llm has "except Exception: continue", any failure
\* of an attempt is retried and raised only when the attempts are used up
NodeFailsRetried ==
  /\ status = "running" /\ step < RecursionLimit /\ next # {}
  /\ attempts < MaxRetries
  /\ attempts' = attempts + 1
  /\ IF attempts + 1 = MaxRetries
     THEN status' = "failed" /\ result' = Raised("Exception")
     ELSE UNCHANGED <<status, result>>
  /\ UNCHANGED <<state, next, step, trace, exec, inputs, harness, log, call>>

\* The node of the next superstep raises (call_llm gave up or re-raised, the
\* answer lacks a key, a required field is None): the exception leaves
\* app.stream and run_with_human_log; nothing is merged.
NodeFails ==
  /\ status = "running" /\ step < RecursionLimit /\ next # {}
  /\ status' = "failed"
  /\ result' = Raised("Exception")
  /\ UNCHANGED <<state, next, step, trace, exec, inputs, harness, attempts, log, call>>

\* mutant of InvalidReply: the loop is range(1, max_retries), one attempt short
InvalidReplyOneShort ==
  /\ status = "running" /\ step < RecursionLimit /\ next # {}
  /\ ~Stubbed /\ \A n \in next : ~Crashes(n, state)
  /\ attempts < MaxRetries - 1
  /\ attempts' = attempts + 1
  /\ IF attempts + 1 = MaxRetries - 1
     THEN status' = "failed" /\ result' = Raised("RuntimeError")
     ELSE UNCHANGED <<status, result>>
  /\ UNCHANGED <<state, next, step, trace, exec, inputs, harness, log, call>>

\* call_llm, except JSONDecodeError: the reply of one attempt is not JSON.  The
\* loop goes on to the next attempt; after the attempt number max_retries it
\* ends and RuntimeError is raised, which leaves the node, app.stream and
\* run_with_human_log.
InvalidReply ==
  /\ status = "running" /\ step < RecursionLimit /\ next # {}
  /\ ~Stubbed /\ \A n \in next : ~Crashes(n, state)
  /\ attempts < MaxRetries
  /\ attempts' = attempts + 1
  /\ IF attempts + 1 = MaxRetries
     THEN status' = "failed" /\ result' = Raised("RuntimeError")
     ELSE UNCHANGED <<status, result>>
  /\ UNCHANGED <<state, next, step, trace, exec, inputs, harness, log, call>>

\* run_with_human_log, the body of its loop: f.write or f.flush raises while
\* the entry of the last superstep is written (no try/except around them); the
\* exception leaves run_with_human_log and the stream is closed.  The node
\* has run and its update was delivered; of its entry the header has reached
\* the file (the entry is cut behind its title) or it has not (the file ends
\* with the entry before).
SinkFails ==
  /\ status = "running" /\ step >= 1 /\ attempts = 0
  /\ status' = "failed"
  /\ result' = Raised("OSError")
  /\ \/ log' = log
     \/ log' = SubSeq(log, 1, Len(log) - 1)
  /\ UNCHANGED <<state, next, step, trace, exec, inputs, harness, attempts, call>>

\* mutant of Halt: final_state is taken from the "updates" chunks, the run
\* returns the patch of the last node
HaltReturnsLastUpdate ==
  /\ status = "running"
  /\ step >= RecursionLimit \/ next = {}
  /\ status' = IF step >= RecursionLimit THEN "out_of_steps" ELSE "done"
  /\ result' = IF step >= RecursionLimit THEN Raised("GraphRecursionError")
                ELSE Returned(exec.patch)
  /\ UNCHANGED <<state, next, step, trace, exec, inputs, harness, attempts, log, call>>

\* mutant of Halt: a run with no task left is not ended
HaltOnlyOutOfSteps ==
  /\ status = "running"
  /\ step >= RecursionLimit
  /\ status' = "out_of_steps"
  /\ result' = Raised("GraphRecursionError")
  /\ UNCHANGED <<state, next, step, trace, exec, inputs, harness, attempts, log, call>>

\* mutant of Halt: the limit is taken one superstep early
HaltOneEarly ==
  /\ status = "running"
  /\ step >= RecursionLimit - 1 \/ next = {}
  /\ status' = IF step >= RecursionLimit - 1 THEN "out_of_steps" ELSE "done"
  /\ result' = IF step >= RecursionLimit - 1 THEN Raised("GraphRecursionError")
                ELSE Returned(state)
  /\ UNCHANGED <<state, next, step, trace, exec, inputs, harness, attempts, log, call>>

\* The loop's tick finds the step limit reached (GraphRecursionError) or, the
\* limit not reached, no task left (the run is done; END was reached).
Halt ==
  /\ status = "running"
  /\ step >= RecursionLimit \/ next = {}
  /\ status' = IF step >= RecursionLimit THEN "out_of_steps" ELSE "done"
  /\ result' = IF step >= RecursionLimit THEN Raised("GraphRecursionError")
                ELSE Returned(state)
  /\ UNCHANGED <<state, next, step, trace, exec, inputs, harness, attempts, log, call>>

\* inputs dicts with case_text, model, suffix, top_k and an iter among iters
InputsFrom(iters) ==
  [case_text : {"case"}, model : {"gpt-oss:20b"}, suffix : {" (plausible)"},
   iter : iters, top_k : 1..MaxTopK]

\* main.py's inputs: case_text, model, suffix, iter (0) and top_k
Inputs == InputsFrom({0})

\* run_with_human_log(app, inputs) before the first superstep
InitRun ==
  /\ state = inputs
  /\ next = {EntryPoint}
  /\ step = 0
  /\ status = "running"
  /\ trace = <<>>
  /\ exec = [node |-> "none", given |-> <<>>, answer |-> <<>>, patch |-> EmptyDict]
  /\ attempts = 0
  /\ log = <<>>
  /\ result = [kind |-> "none"]
  /\ call = [fn |-> "none"]

\* the program as shipped
Init ==
  /\ inputs \in Inputs
  /\ InitRun
  /\ harness = [router2 |-> "shipped", executor |-> "llm"]

\* under a test harness: the query_* functions are doubles, or the backend
\* behind call_llm is one, and router 2 is the shipped one or a faulty one
\* that always answers "continue"
InitHarness ==
  /\ inputs \in InputsFrom(0..MaxStartIter)
  /\ InitRun
  /\ harness \in [router2 : {"shipped", "always_continue"},
                  executor : {"stub", "canned"}]

Next ==
  \/ N_abstraction
  \/ N_abduction_unfocused
  \/ N_abduction_focused
  \/ N_ranking
  \/ N_deduction
  \/ N_induction
  \/ NodeFails
  \/ Halt

Spec == Init /\ [][Next]_vars

\* a node's superstep in which the backend call returned
Returns ==
  \/ N_abstraction
  \/ N_abduction_unfocused
  \/ N_abduction_focused
  \/ N_ranking
  \/ N_deduction
  \/ N_induction


\* Under the harness the attempts of call_llm and the failures of the log
\* file are steps of their own; in Next a call_llm that gives up is NodeFails.
NextHarness == Next \/ InvalidReply \/ SinkFails

SpecHarness == InitHarness /\ [][NextHarness]_vars

\* The stream's loop is a plain sequential loop: it blocks on the node of the
\* superstep until the call returns or raises, and then goes on to its next
\* tick, so a node that can run does not wait forever and neither does the
\* tick that ends the run.
SpecHarnessFair == SpecHarness /\ WF_vars(Returns) /\ WF_vars(Halt)

\* ------------------------------------------- functions applied on their own
\* No run: one function is given arguments from bounded sets and applied once.
NoRun ==
  /\ inputs = EmptyDict /\ state = EmptyDict /\ next = {} /\ step = 0
  /\ status = "idle" /\ trace = <<>> /\ log = <<>> /\ attempts = 0
  /\ exec = [node |-> "none", given |-> <<>>, answer |-> <<>>, patch |-> EmptyDict]
  /\ result = [kind |-> "none"]
  /\ harness = [router2 |-> "shipped", executor |-> "llm"]

\* the states a router is called on: the inputs alone (abstraction absent, or
\* written None), or the inputs and an abstraction, empty or not
RouterStates ==
  Inputs \cup
  {Merge(i, n_abstraction(Some(query_abstraction(a)))) :
     i \in Inputs, a \in AbstractionAnswers}

\* the states route_after_ranking is called on: the state after a Ranking
\* patch was merged (reranked False or True), and a state without the flag
RankingRouterStates ==
  Inputs \cup
  {Merge(i, n_ranking(Merge(i, before), query_rank_hypotheses(a))) :
     i \in Inputs, a \in RankingAnswers,
     before \in {EmptyDict, [induction |-> [hypotheses |-> <<>>]]}}

\* A diagnosis string, for _norm_diag, is the sequence of its characters.
Whitespace == {" ", "\t"}

\* str.lower, character by character
lower_char(c) == CASE c = "A" -> "a" [] c = "B" -> "b" [] OTHER -> c

RECURSIVE lower(_)
lower(x) == IF x = <<>> THEN <<>> ELSE <<lower_char(Head(x))>> \o lower(Tail(x))

\* str.strip: the whitespace at both ends is removed
RECURSIVE lstrip(_)
lstrip(x) == IF x # <<>> /\ Head(x) \in Whitespace THEN lstrip(Tail(x)) ELSE x

RECURSIVE rstrip(_)
rstrip(x) ==
  IF x # <<>> /\ x[Len(x)] \in Whitespace THEN rstrip(SubSeq(x, 1, Len(x) - 1)) ELSE x

strip(x) == rstrip(lstrip(x))

\* re.sub(r"\s+", " ", x): every run of whitespace becomes one space
RECURSIVE sub_whitespace(_)
sub_whitespace(x) ==
  IF x = <<>> THEN <<>>
  ELSE IF Head(x) \in Whitespace THEN <<" ">> \o sub_whitespace(lstrip(x))
       ELSE <<Head(x)>> \o sub_whitespace(Tail(x))

\* _norm_diag(x), x a string: stripped, lowered, whitespace runs collapsed
norm_diag(x) == sub_whitespace(lower(strip(x)))

\* h.get(key, ""), key = "diagnosis"
GetDiagnosis(h) == IF "diagnosis" \in DOMAIN h THEN h.diagnosis ELSE <<>>

\* A dict is the sequence of its items in insertion order.
DictKeys(d) == {d[i].k : i \in 1..Len(d)}

\* d[k] = v: the value of a key that is there is replaced where the key
\* stands, a new key goes to the end
DictSet(d, k, v) ==
  IF k \in DictKeys(d)
  THEN [i \in 1..Len(d) |-> IF d[i].k = k THEN [k |-> k, v |-> v] ELSE d[i]]
  ELSE Append(d, [k |-> k, v |-> v])

DictGet(d, k) == d[CHOOSE i \in 1..Len(d) : d[i].k = k].v

\* d.pop(k): the dict without the key
RECURSIVE DictWithout(_, _)
DictWithout(d, k) ==
  IF d = <<>> THEN <<>>
  ELSE IF Head(d).k = k THEN Tail(d)
       ELSE <<Head(d)>> \o DictWithout(Tail(d), k)

\* list(d.values())
RECURSIVE DictValues(_)
DictValues(d) == IF d = <<>> THEN <<>> ELSE <<Head(d).v>> \o DictValues(Tail(d))

\* by_diag = {_norm_diag(h.get(key, "")): h for h in output_hypotheses}
RECURSIVE by_diag(_)
by_diag(output_hypotheses) ==
  IF output_hypotheses = <<>> THEN <<>>
  ELSE LET h == output_hypotheses[Len(output_hypotheses)]
       IN DictSet(by_diag(SubSeq(output_hypotheses, 1, Len(output_hypotheses) - 1)),
                  norm_diag(GetDiagnosis(h)), h)

\* the loop over input_diagnoses, then ordered.extend(by_diag.values())
RECURSIVE reorder_loop(_, _, _)
reorder_loop(input_diagnoses, d, ordered) ==
  IF input_diagnoses = <<>> THEN ordered \o DictValues(d)
  ELSE LET k == norm_diag(Head(input_diagnoses))
       IN IF k \in DictKeys(d)
          THEN reorder_loop(Tail(input_diagnoses), DictWithout(d, k),
                            Append(ordered, DictGet(d, k)))
          ELSE reorder_loop(Tail(input_diagnoses), d, ordered)

\* reorder_hypotheses_like(input_diagnoses, output_hypotheses)
reorder_hypotheses_like(input_diagnoses, output_hypotheses) ==
  reorder_loop(input_diagnoses, by_diag(output_hypotheses), <<>>)

\* diagnosis strings as a backend writes them: case and whitespace vary
RawDiagnoses ==
  {<<"a">>, <<"A", " ">>, <<"b">>, <<"a", " ", "b">>, <<"a", "\t", " ", "B">>}

\* output hypotheses: with a diagnosis, or without the key
ReorderHypotheses == [diagnosis : RawDiagnoses] \cup {[explanation |-> "e"]}

\* the hypotheses of a ranking n_deduction may be called on: ranked, with a
\* position that has no rank, or with no position
DeductionHypotheses ==
  RankedDiagnosticHypothesis
  \cup [diagnosis : Diagnoses, position : {EmptyDict}]
  \cup [diagnosis : Diagnoses]

\* the states n_deduction is called on: the inputs and a ranking
DeductionStates ==
  {Merge(i, [ranking |-> [hypotheses |-> hyps]]) :
     i \in Inputs, hyps \in SeqsUpTo(DeductionHypotheses, MaxSortLen)}

\* the functions applied on their own, and the arguments given to each
CallArguments ==
  [fn : {"n_abduction_focused"}, done : {FALSE}, top_k : 1..MaxCallTopK,
   answer : [hypotheses : SeqsUpTo(DiagnosticHypothesis, MaxCallLen)]]
  \cup [fn : {"route_after_abstraction"}, done : {FALSE}, s : RouterStates]
  \cup [fn : {"route_after_ranking"}, done : {FALSE}, s : RankingRouterStates]
  \cup [fn : {"n_ranking"}, done : {FALSE},
        answer : [hypotheses : SeqsUpTo(RankedDiagnosticHypothesis, MaxSortLen)]]
  \cup [fn : {"n_deduction"}, done : {FALSE}, s : DeductionStates]
  \cup [fn : {"reorder_hypotheses_like"}, done : {FALSE},
        input_diagnoses : SeqsUpTo(RawDiagnoses, MaxReorderIn),
        output_hypotheses : SeqsUpTo(ReorderHypotheses, MaxReorderOut)]

InitCalls == NoRun /\ call \in CallArguments

\* n_abduction_focused: query_abduction_focused with max_focused = top_k, and
\* the patch made of its result
Call_n_abduction_focused ==
  /\ call.fn = "n_abduction_focused" /\ ~call.done
  /\ \E out \in query_abduction_focused(call.answer, call.top_k) :
       call' = [fn |-> call.fn, done |-> TRUE, top_k |-> call.top_k,
                answer |-> call.answer, patch |-> n_abduction_focused(out)]
  /\ UNCHANGED <<state, next, step, status, trace, exec, inputs, harness,
                 attempts, log, result>>

\* route_after_abstraction(s): its return value, and s as the call left it
\* (the function reads s.get("abstraction") and assigns nothing)
Call_route_after_abstraction ==
  /\ call.fn = "route_after_abstraction" /\ ~call.done
  /\ call' = [fn |-> call.fn, done |-> TRUE, s |-> call.s,
              out |-> route_after_abstraction(call.s), after |-> call.s]
  /\ UNCHANGED <<state, next, step, status, trace, exec, inputs, harness,
                 attempts, log, result>>

\* route_after_ranking(s): its return value, and s as the call left it (the
\* function reads s.get("reranked", False) and assigns nothing)
Call_route_after_ranking ==
  /\ call.fn = "route_after_ranking" /\ ~call.done
  /\ call' = [fn |-> call.fn, done |-> TRUE, s |-> call.s,
              out |-> route_after_ranking(call.s), after |-> call.s]
  /\ UNCHANGED <<state, next, step, status, trace, exec, inputs, harness,
                 attempts, log, result>>

\* the two sorts of a ranking: sorted(answer["hypotheses"], key=rank) in
\* query_rank_hypotheses, then out["hypotheses"].sort(key=rank) in n_ranking
Call_n_ranking ==
  /\ call.fn = "n_ranking" /\ ~call.done
  /\ LET ranked_answer == query_rank_hypotheses(call.answer)
     IN call' = [fn |-> call.fn, done |-> TRUE, answer |-> call.answer,
                 ranked_answer |-> ranked_answer,
                 out |-> [hypotheses |-> SortByRank(ranked_answer.hypotheses)]]
  /\ UNCHANGED <<state, next, step, status, trace, exec, inputs, harness,
                 attempts, log, result>>

\* n_deduction(s) up to the call of the backend: query_deduction is given
\* s["ranking"], sorts its hypotheses and builds the diagnosis list of the
\* response format from them
Call_n_deduction ==
  /\ call.fn = "n_deduction" /\ ~call.done
  /\ call' = [fn |-> call.fn, done |-> TRUE, s |-> call.s,
              given |-> DeductionGiven(call.s.ranking),
              diagnoses |-> DeductionDiagnoses(call.s.ranking)]
  /\ UNCHANGED <<state, next, step, status, trace, exec, inputs, harness,
                 attempts, log, result>>

\* reorder_hypotheses_like(input_diagnoses, output_hypotheses): the list returned
Call_reorder_hypotheses_like ==
  /\ call.fn = "reorder_hypotheses_like" /\ ~call.done
  /\ call' = [fn |-> call.fn, done |-> TRUE,
              input_diagnoses |-> call.input_diagnoses,
              output_hypotheses |-> call.output_hypotheses,
              out |-> reorder_hypotheses_like(call.input_diagnoses,
                                              call.output_hypotheses)]
  /\ UNCHANGED <<state, next, step, status, trace, exec, inputs, harness,
                 attempts, log, result>>

NextCalls ==
  \/ Call_n_abduction_focused
  \/ Call_route_after_abstraction
  \/ Call_route_after_ranking
  \/ Call_n_ranking
  \/ Call_n_deduction
  \/ Call_reorder_hypotheses_like

SpecCalls == InitCalls /\ [][NextCalls]_vars

\* ------------------------------------------------------------ the claims
\* number of executions of node n so far
RECURSIVE Count(_, _)
Count(tr, n) ==
  IF tr = <<>> THEN 0 ELSE (IF Head(tr) = n THEN 1 ELSE 0) + Count(Tail(tr), n)

\* the set of diagnosis names of a hypothesis list
DiagnosisNames(hyps) == {hyps[i].diagnosis : i \in 1..Len(hyps)}

\* a hypothesis list in ascending order of position.rank
IsSortedByRank(hyps) ==
  \A i \in 1..(Len(hyps) - 1) : hyps[i].position.rank <= hyps[i + 1].position.rank

FullPath == <<"abstraction", "abduction_unfocused", "abduction_focused",
              "ranking", "deduction", "induction", "ranking">>

\* C1: a run whose abstraction is present (possibly empty) executes exactly
\* the 7 node steps of FullPath: it never executes an 8th, reranked is false
\* after step 4 (and until the second Ranking), true after step 7, after
\* which no node is triggered, and a run that is done has executed all 7.
C1_SevenSteps ==
  (step >= 1 /\ ~IsNone(state, "abstraction")) =>
    /\ step <= 7
    /\ trace = SubSeq(FullPath, 1, step)
    /\ (step \in 4..6 => state.reranked = FALSE)
    /\ (step = 7 => state.reranked = TRUE /\ next = {})
    /\ (status = "done" => step = 7)

\* C1 witness: a finished run over an empty (but present) abstraction
C1_Witness ==
  /\ status = "done" /\ step = 7 /\ trace = FullPath
  /\ state.abstraction = <<>> /\ state.reranked = TRUE

\* C2: when the abstraction is absent after the Abstraction node, that node
\* is the only one ever executed and ranking, deduction and induction stay
\* absent.
C2_AbsentAbstractionStops ==
  (harness.router2 = "shipped" /\ step >= 1 /\ IsNone(state, "abstraction")) =>
    /\ trace = <<"abstraction">>
    /\ IsNone(state, "ranking") /\ IsNone(state, "deduction") /\ IsNone(state, "induction")

\* C3: with the shipped routers Deduction and Induction execute at most once
\* and Ranking at most twice; the second Ranking leaves reranked true and
\* triggers nothing.
C3_CycleAtMostOnce ==
  /\ Count(trace, "deduction") <= 1
  /\ Count(trace, "induction") <= 1
  /\ Count(trace, "ranking") <= 2
  /\ (Count(trace, "ranking") = 2 =>
        state.reranked = TRUE /\ route_after_ranking(state) = "end" /\ next = {})

\* C3 witness: the cycle was traversed once and Ranking ran a second time
C3_Witness ==
  /\ Count(trace, "ranking") = 2 /\ Count(trace, "deduction") = 1
  /\ Count(trace, "induction") = 1 /\ exec.node = "ranking"

\* C4: with a router 2 that always answers continue the run is never done,
\* never executes more than 60 steps, and is out of steps only with exactly
\* 60 steps executed.
C4_BudgetAtSixty ==
  harness.router2 = "always_continue" =>
    /\ status # "done"
    /\ step <= 60
    /\ (status = "out_of_steps" => step = 60 /\ Len(trace) = 60)

\* C4 witness: the faulty run ended out of steps
C4_Witness ==
  harness.router2 = "always_continue" /\ status = "out_of_steps" /\ step = 60

\* C5: once reranked is true no step makes it false (or absent) again.
C5_RerankedNeverResets ==
  [][Get(state, "reranked", FALSE) => Get(state', "reranked", FALSE)]_vars

\* C6: a Ranking node entered with reranked already true completes no step:
\* it writes no ranking and leaves reranked as it is.
C6_RankingFailsFast ==
  [][(status = "running" /\ next = {"ranking"} /\ Get(state, "reranked", FALSE))
       => (state' = state /\ step' = step)]_vars

\* C7: after every Ranking step ranking.hypotheses is in ascending order of
\* position.rank.
C7_RankingSorted ==
  ~IsNone(state, "ranking") => IsSortedByRank(state.ranking.hypotheses)

\* C7 witness: the rerank pass got its hypotheses from the backend out of order
C7_Witness ==
  /\ exec.node = "ranking" /\ step = 7
  /\ ~IsSortedByRank(exec.answer.hypotheses)
  /\ Len(state.ranking.hypotheses) = 2

\* C8: after every Ranking step the ranks are exactly 1..N, each once, N the
\* number of hypotheses given to that pass.
C8_RanksArePermutation ==
  exec.node = "ranking" =>
    LET hyps == state.ranking.hypotheses
        N == Len(exec.given)
    IN /\ Len(hyps) = N
       /\ {hyps[i].position.rank : i \in 1..Len(hyps)} = 1..N

\* C9: after the Deduction step the diagnoses of deduction.hypotheses are
\* among the diagnoses of the ranking Deduction ran on.
C9_DeductionWithinRanking ==
  exec.node = "deduction" =>
    DiagnosisNames(state.deduction.hypotheses) \subseteq DiagnosisNames(state.ranking.hypotheses)

\* C10: after the Induction step the diagnoses of induction.hypotheses and of
\* induction_plausible.hypotheses are among those of the preceding ranking.
C10_InductionWithinRanking ==
  exec.node = "induction" =>
    /\ DiagnosisNames(state.induction.hypotheses)
         \subseteq DiagnosisNames(state.ranking.hypotheses)
    /\ DiagnosisNames(state.induction_plausible.hypotheses)
         \subseteq DiagnosisNames(state.ranking.hypotheses)

\* C11: when the backend's focused answer has more hypotheses than top_k, the
\* patch of n_abduction_focused has exactly top_k hypotheses, each one an item
\* of the answer, and no item of the answer is taken twice: the k-th
\* hypothesis is the item at position pick[k] for distinct positions pick.
C11_SampledWithoutReplacement ==
  (call.fn = "n_abduction_focused" /\ call.done
     /\ Len(call.answer.hypotheses) > call.top_k) =>
    LET out == call.patch.abduction_focused.hypotheses
        given == call.answer.hypotheses
    IN /\ Len(out) = call.top_k
       /\ \E pick \in [1..call.top_k -> 1..Len(given)] :
            /\ \A i, j \in 1..call.top_k : i # j => pick[i] # pick[j]
            /\ \A i \in 1..call.top_k : out[i] = given[pick[i]]

\* a sample of two out of three items that carry one diagnosis twice
C11_Witness ==
  /\ call.fn = "n_abduction_focused" /\ call.done
  /\ Len(call.answer.hypotheses) = 3 /\ call.top_k = 2
  /\ call.answer.hypotheses[1] = call.answer.hypotheses[3]
  /\ call.patch.abduction_focused.hypotheses =
       <<call.answer.hypotheses[3], call.answer.hypotheses[1]>>

\* C12: the final state a completed run returns has ranking, deduction,
\* induction and induction_plausible present (not None), reranked true, and
\* iter equal to the iter of the inputs plus 1.
C12_FinalStateOfFullPath ==
  result.kind = "returned" =>
    LET final_state == result.final_state
    IN /\ \A k \in {"abstraction", "ranking", "deduction", "induction",
                     "induction_plausible"} : ~IsNone(final_state, k)
       /\ final_state.reranked = TRUE
       /\ final_state.iter = inputs.iter + 1

\* a run returned after the seven steps, with a refuted hypothesis in induction
C12_Witness ==
  /\ result.kind = "returned" /\ trace = FullPath
  /\ result.final_state.iter = 1
  /\ \E i \in DOMAIN result.final_state.induction.hypotheses :
       result.final_state.induction.hypotheses[i].evaluation = "refuted"

\* C13 as stated: the hypotheses the second Ranking pass hands to the backend
\* are those of induction_plausible (the hypotheses of induction evaluated
\* plausible), and no diagnosis evaluated refuted is in the final ranking.
C13_RerankGivenPlausible ==
  (exec.node = "ranking" /\ Get(state, "reranked", FALSE)) =>
    /\ exec.given = state.induction_plausible.hypotheses
    /\ \A i \in DOMAIN state.induction.hypotheses :
         state.induction.hypotheses[i].evaluation = "refuted" =>
           state.induction.hypotheses[i].diagnosis
             \notin DiagnosisNames(state.ranking.hypotheses)

\* C13 amended: the hypotheses the second Ranking pass hands to the backend
\* are all the hypotheses of induction, the refuted ones included, in the
\* order induction has them.
C13_RerankGivenAll ==
  (exec.node = "ranking" /\ Get(state, "reranked", FALSE)) =>
    exec.given = state.induction.hypotheses

\* a second Ranking pass that was handed a refuted hypothesis
C13_Witness ==
  /\ exec.node = "ranking" /\ Get(state, "reranked", FALSE) /\ step = 7
  /\ \E i \in DOMAIN exec.given : exec.given[i].evaluation = "refuted"
  /\ exec.given # state.induction_plausible.hypotheses

\* the three inputs the nodes are not to change
ImmutableInputs == {"case_text", "model", "top_k"}

\* C14: case_text, model and top_k hold the values of the inputs in
\* every state, and the patch of no node has any of these keys.
C14_InputsNeverWritten ==
  /\ \A k \in ImmutableInputs : state[k] = inputs[k]
  /\ DOMAIN exec.patch \cap ImmutableInputs = {}

\* C15: call_llm makes at most MaxRetries attempts: a node step (call_llm
\* returned a reply that parsed) follows fewer than MaxRetries invalid
\* replies, the run fails with RuntimeError exactly when the MaxRetries-th
\* reply in a row was invalid, and a failed run takes no further step.
C15_RetriesThenFatal ==
  [][/\ attempts' \in 0..MaxRetries
     /\ (step' = step + 1 => attempts < MaxRetries /\ attempts' = 0)
     /\ (attempts' = MaxRetries <=>
           (status' = "failed" /\ result' = Raised("RuntimeError")))
     /\ (attempts' = MaxRetries => attempts = MaxRetries - 1 /\ status = "running")
     /\ (status = "failed" => UNCHANGED <<state, next, step, trace, log>>)]_vars

\* call_llm gave up in the ranking call of the fourth step
C15_Witness ==
  /\ status = "failed" /\ result = Raised("RuntimeError")
  /\ attempts = MaxRetries /\ step = 3 /\ next = {"ranking"}

\* C16: a node is never retried.  The step in which a node's call fails
\* (any failure of a run but that of the log file) merges nothing, executes
\* no node and writes no log entry; the caller of run_with_human_log gets the
\* exception, not a final state; and the failed run takes no step after it,
\* so neither that node nor a later one runs.
C16_FailureUnwinds ==
  [][/\ (status = "running" /\ status' = "failed") =>
          /\ result'.kind = "raised"
          /\ UNCHANGED <<state, next, step, trace>>
          /\ (result' # Raised("OSError") => UNCHANGED log)
     /\ (status = "failed" => UNCHANGED vars)]_vars

\* the deduction call failed after the first ranking: no deduction in the
\* state, four nodes executed, the exception raised to the caller
C16_Witness ==
  /\ status = "failed" /\ result = Raised("Exception")
  /\ next = {"deduction"} /\ IsNone(state, "deduction")
  /\ trace = SubSeq(FullPath, 1, 4)

\* C17: when call_llm gave up on a phase, what the caller of
\* run_with_human_log gets names the phase that failed and carries the state
\* as it was before that phase.
C17_FailureNamesPhaseAndState ==
  (status = "failed" /\ result.kind = "raised" /\ result.error = "RuntimeError") =>
    /\ "phase" \in DOMAIN result /\ "state" \in DOMAIN result
    /\ result.phase \in next
    /\ result.state = state

\* C18: a deduction or induction step is merged only if the backend's answer
\* names no diagnosis outside the ranking of the state and has as many
\* hypotheses as that ranking; any other answer aborts the run.
C18_NonconformingSetAborts ==
  exec.node \in {"deduction", "induction"} =>
    /\ DiagnosisNames(exec.answer.hypotheses) \subseteq DiagnosisNames(state.ranking.hypotheses)
    /\ Len(exec.answer.hypotheses) = Len(state.ranking.hypotheses)

C20_LogFailureContained ==
  status = "failed" => result # Raised("OSError")

\* C21: with the shipped routers a run in which no call (and no write of the
\* log) fails is eventually done, the terminal marker reached, and no such
\* run ever executes RecursionLimit steps or ends out of steps.
C21_TerminatesWithinBudget ==
  /\ [](harness.router2 = "shipped" /\ status # "failed") => <>(status = "done")
  /\ [](harness.router2 = "shipped" => step < RecursionLimit /\ status # "out_of_steps")

\* a run with the shipped routers and the backend double that is done with
\* the step budget far from reached
C21_Witness ==
  /\ harness = [router2 |-> "shipped", executor |-> "canned"]
  /\ status = "done" /\ result.kind = "returned"
  /\ step = Len(FullPath) /\ step < RecursionLimit /\ next = {}

\* the transition table: the pairs (node, successor) a run may take
TransitionTable ==
  {<<"abstraction", "abduction_unfocused">>,
   <<"abduction_unfocused", "abduction_focused">>,
   <<"abduction_focused", "ranking">>,
   <<"ranking", "deduction">>,
   <<"deduction", "induction">>,
   <<"induction", "ranking">>}

\* C22: the executed nodes form a path of the transition table: the first is
\* abstraction and every node executed after another is its successor in
\* the table.
C22_PathOfTransitionTable ==
  /\ trace # <<>> => trace[1] = "abstraction"
  /\ \A i \in 1..(Len(trace) - 1) : <<trace[i], trace[i + 1]>> \in TransitionTable

\* a run that took all six transitions of the table
C22_Witness ==
  \A pair \in TransitionTable :
    \E i \in 1..(Len(trace) - 1) : <<trace[i], trace[i + 1]>> = pair

\* C23: at most one node is the task of a superstep, and every superstep
\* executes exactly one node: the executed nodes are as many as the steps.
C23_OneNodePerStep ==
  /\ Cardinality(next) <= 1
  /\ Len(trace) = step

\* after abstraction both its plain edge and its conditional edge trigger
\* abduction_unfocused, which is the one task of the next step
C23_Witness ==
  /\ trace = <<"abstraction">>
  /\ <<"abstraction", "abduction_unfocused">> \in Edges
  /\ ConditionalEdges("abstraction", state) = {"abduction_unfocused"}
  /\ next = {"abduction_unfocused"}

\* C24: the node executed last found the fields it reads written, not None:
\* abduction_unfocused and abduction_focused the abstraction, the first
\* Ranking pass abduction_focused, deduction the ranking, induction the
\* deduction (no node writes None over a field it read).  Routers as shipped.
C24_ReadsAreWritten ==
  harness.router2 = "shipped" =>
    /\ exec.node \in {"abduction_unfocused", "abduction_focused"} =>
         ~IsNone(state, "abstraction")
    /\ (exec.node = "ranking" /\ ~Get(state, "reranked", FALSE)) =>
         ~IsNone(state, "abduction_focused")
    /\ exec.node = "deduction" => ~IsNone(state, "ranking")
    /\ exec.node = "induction" => ~IsNone(state, "deduction")

\* C25: a node step merges its patch key by key: afterwards every key of the
\* patch holds the patch's value (the whole value, nothing of the old one),
\* every other key holds the value it had, and the keys present are those
\* present before and those of the patch; none has gone.
C25_ShallowMerge ==
  [][step' = step + 1 =>
       /\ DOMAIN state' = DOMAIN state \cup DOMAIN exec'.patch
       /\ \A k \in DOMAIN exec'.patch : state'[k] = exec'.patch[k]
       /\ \A k \in DOMAIN state \ DOMAIN exec'.patch : state'[k] = state[k]]_vars

\* the second Ranking pass has overwritten ranking and reranked, written by
\* the first, and the fields of the other nodes are still there
C25_Witness ==
  /\ exec.node = "ranking" /\ Count(trace, "ranking") = 2
  /\ DOMAIN exec.patch = {"ranking", "reranked"}
  /\ state.ranking = exec.patch.ranking /\ Len(state.ranking.hypotheses) = MaxHyp
  /\ state.iter = 1 /\ Len(state.deduction.hypotheses) = 1

\* the phase table: the fields each node owns
Owned ==
  [n \in NodeNames |->
     CASE n = "abstraction" -> {"abstraction"}
       [] n = "abduction_unfocused" -> {"abduction_unfocused"}
       [] n = "abduction_focused" -> {"abduction_focused"}
       [] n = "ranking" -> {"ranking", "reranked"}
       [] n = "deduction" -> {"deduction"}
       [] n = "induction" -> {"induction", "induction_plausible", "iter"}]

\* C26: the patch of a node has only fields the node owns, and no
\* field it writes other than ranking or reranked is a field of the initial
\* state or owned by another node.
C26_PatchOnlyOwnedFields ==
  exec.node \in NodeNames =>
    /\ DOMAIN exec.patch \subseteq Owned[exec.node]
    /\ \A k \in DOMAIN exec.patch \ {"ranking", "reranked"} :
         /\ k \notin DOMAIN inputs
         /\ \A m \in NodeNames \ {exec.node} : k \notin Owned[m]

\* C27: iter is the iter of the inputs plus the number of Induction steps
\* executed so far; a step changes it only if it is an Induction step, and then
\* by exactly 1, so it never decreases.
C27_IterCountsInductions ==
  /\ [](state.iter = inputs.iter + Count(trace, "induction"))
  /\ [][/\ state'.iter # state.iter => exec'.node = "induction" /\ step' = step + 1
        /\ (step' = step + 1 /\ exec'.node = "induction") => state'.iter = state.iter + 1
        /\ state'.iter >= state.iter]_vars

\* the third Induction of a run started with iter = 1 whose router after
\* ranking always continues
C27_Witness ==
  /\ exec.node = "induction" /\ Count(trace, "induction") = 3
  /\ inputs.iter = 1 /\ state.iter = 4

\* C28: a Ranking step always writes ranking.  Entered with induction absent
\* it hands the backend the hypotheses of abduction_focused and writes
\* reranked = False; entered with induction present and reranked False or
\* absent it hands over the hypotheses of induction and writes reranked = True.
C28_RankingModes ==
  [][(step' = step + 1 /\ exec'.node = "ranking") =>
       /\ "ranking" \in DOMAIN exec'.patch
       /\ IsNone(state, "induction") =>
            /\ exec'.given = state.abduction_focused.hypotheses
            /\ exec'.patch.reranked = FALSE
       /\ (~IsNone(state, "induction") /\ ~Get(state, "reranked", FALSE)) =>
            /\ exec'.given = state.induction.hypotheses
            /\ exec'.patch.reranked = TRUE]_vars

\* a first pass: induction absent, a focused hypothesis handed over, the flag
\* written False
C28_Witness ==
  /\ exec.node = "ranking" /\ IsNone(state, "induction")
  /\ exec.given = state.abduction_focused.hypotheses /\ Len(exec.given) = 1
  /\ exec.patch.reranked = FALSE /\ Len(exec.patch.ranking.hypotheses) = 2

\* C29 as stated: no hypothesis handed to the backend in the second Ranking
\* pass has an induction field (evaluation).
C29_RerankGivenWithoutInductionFields ==
  (exec.node = "ranking" /\ Get(state, "reranked", FALSE)) =>
    \A i \in 1..Len(exec.given) : "evaluation" \notin DOMAIN exec.given[i]

\* C29 amended: every hypothesis handed to the backend in the second Ranking
\* pass has the fields it has in induction, evaluation among them with its
\* value, and query_rank_hypotheses takes a non-empty list of them as
\* post-induction; the hypotheses of the first pass have no such field.
C29_RerankGivenKeepsInductionFields ==
  exec.node = "ranking" =>
    IF Get(state, "reranked", FALSE)
    THEN /\ Len(exec.given) = Len(state.induction.hypotheses)
         /\ \A i \in 1..Len(exec.given) :
              /\ DOMAIN exec.given[i] = DOMAIN state.induction.hypotheses[i]
              /\ "evaluation" \in DOMAIN exec.given[i]
              /\ exec.given[i].evaluation = state.induction.hypotheses[i].evaluation
         /\ exec.given # <<>> => is_post_induction(exec.given)
    ELSE ~is_post_induction(exec.given)

\* a second pass that was handed two hypotheses with their evaluations
C29_Witness ==
  /\ exec.node = "ranking" /\ Get(state, "reranked", FALSE)
  /\ Len(exec.given) = 2 /\ is_post_induction(exec.given)
  /\ exec.given[1].evaluation = "plausible" /\ exec.given[2].evaluation = "refuted"

\* C30: route_after_abstraction returns "continue" exactly when the state has
\* an abstraction that is not None, an empty list included, and "end"
\* exactly when it has none (absent or None); the state is as it was.
C30_RouterOneByAbstraction ==
  (call.fn = "route_after_abstraction" /\ call.done) =>
    /\ call.out \in {"continue", "end"}
    /\ call.out = "continue" <=> ~IsNone(call.s, "abstraction")
    /\ call.out = "end" <=> IsNone(call.s, "abstraction")
    /\ call.after = call.s

\* the router called on a state whose abstraction is the empty list
C30_Witness ==
  /\ call.fn = "route_after_abstraction" /\ call.done
  /\ ~IsNone(call.s, "abstraction") /\ call.s.abstraction = <<>>
  /\ call.out = "continue"

\* C31: route_after_ranking, called on the state a Ranking patch was merged
\* into, returns "end" exactly when reranked is True and "continue" when it is
\* False or absent; the state is as it was.
C31_RouterTwoByReranked ==
  (call.fn = "route_after_ranking" /\ call.done) =>
    /\ call.out \in {"continue", "end"}
    /\ call.out = "end" <=> ("reranked" \in DOMAIN call.s /\ call.s.reranked = TRUE)
    /\ call.out = "continue" <=> ("reranked" \notin DOMAIN call.s \/ call.s.reranked = FALSE)
    /\ call.after = call.s

\* the router called on a state without the flag
C31_Witness ==
  /\ call.fn = "route_after_ranking" /\ call.done
  /\ "reranked" \notin DOMAIN call.s /\ call.out = "continue"

\* the positions of the hypotheses evaluated plausible
PlausiblePositions(hyps) == {i \in 1..Len(hyps) : hyps[i].evaluation = "plausible"}

\* C32: once Induction has run, induction_plausible is present and its
\* hypotheses are those of induction evaluated plausible, as many, each
\* unchanged, in the order they have in induction: the k-th is the hypothesis
\* at the k-th plausible position.  With none plausible it is the empty list.
C32_PlausibleIsSubsequence ==
  ~IsNone(state, "induction") =>
    /\ ~IsNone(state, "induction_plausible")
    /\ LET all == state.induction.hypotheses
           plausible == state.induction_plausible.hypotheses
           P == PlausiblePositions(all)
       IN /\ Len(plausible) = Cardinality(P)
          /\ \A i \in P : plausible[Cardinality({j \in P : j <= i})] = all[i]
          /\ P = {} => plausible = <<>>

\* an induction whose first hypothesis is refuted and whose second is
\* plausible: induction_plausible holds the second alone
C32_Witness ==
  /\ exec.node = "induction" /\ Len(state.induction.hypotheses) = 2
  /\ state.induction.hypotheses[1].evaluation = "refuted"
  /\ state.induction.hypotheses[2].evaluation = "plausible"
  /\ state.induction_plausible.hypotheses = <<state.induction.hypotheses[2]>>

\* the hypothesis has a rank
HasRank(h) == "position" \in DOMAIN h /\ "rank" \in DOMAIN h.position

\* C33: the hypotheses Deduction builds its prompt and its diagnosis list from
\* are those of the ranking in the state it is called on, each taken once (a
\* permutation by position, the diagnosis list being their diagnoses in that
\* order); those that have a rank come in ascending order of position.rank,
\* and every hypothesis that has no rank comes behind all that have one.
C33_DeductionGivenRankingByRank ==
  (call.fn = "n_deduction" /\ call.done) =>
    LET ranked == call.s.ranking.hypotheses
        given == call.given
        N == Len(ranked)
    IN /\ Len(given) = N /\ Len(call.diagnoses) = N
       /\ \E perm \in [1..N -> 1..N] :
            /\ \A i, j \in 1..N : i # j => perm[i] # perm[j]
            /\ \A i \in 1..N :
                 /\ given[i] = ranked[perm[i]]
                 /\ call.diagnoses[i] = ranked[perm[i]].diagnosis
       /\ \A i, j \in 1..N :
            (i < j /\ HasRank(given[i]) /\ HasRank(given[j])) =>
              given[i].position.rank <= given[j].position.rank
       /\ \A i, j \in 1..N : (i < j /\ ~HasRank(given[i])) => ~HasRank(given[j])

\* a ranking of a hypothesis with no rank, one of rank 2 and one of rank 1,
\* in that order: Deduction is given rank 1, rank 2, then the one without
C33_Witness ==
  /\ call.fn = "n_deduction" /\ call.done
  /\ Len(call.s.ranking.hypotheses) = 3
  /\ ~HasRank(call.s.ranking.hypotheses[1])
  /\ HasRank(call.s.ranking.hypotheses[2]) /\ call.s.ranking.hypotheses[2].position.rank = 2
  /\ HasRank(call.s.ranking.hypotheses[3]) /\ call.s.ranking.hypotheses[3].position.rank = 1
  /\ call.given = <<call.s.ranking.hypotheses[3], call.s.ranking.hypotheses[2],
                    call.s.ranking.hypotheses[1]>>
  /\ call.diagnoses[3] = call.s.ranking.hypotheses[1].diagnosis

\* C34: sorting a ranking by rank is idempotent, equal ranks included: the
\* sort of n_ranking returns the list the sort of query_rank_hypotheses made.
C34_SortByRankIdempotent ==
  (call.fn = "n_ranking" /\ call.done) =>
    /\ call.out = call.ranked_answer
    /\ IsSortedByRank(call.ranked_answer.hypotheses)

\* three hypotheses in descending order with two of equal rank were sorted
C34_Witness ==
  /\ call.fn = "n_ranking" /\ call.done
  /\ Len(call.answer.hypotheses) = 3
  /\ call.answer.hypotheses[1].position.rank = 2
  /\ call.answer.hypotheses[2].position.rank = 1
  /\ call.answer.hypotheses[3].position.rank = 1
  /\ call.answer.hypotheses[2] # call.answer.hypotheses[3]
  /\ call.ranked_answer.hypotheses # call.answer.hypotheses
  /\ call.out = call.ranked_answer

\* C35: with the shipped query_abstraction the Abstraction node never writes
\* None: once it has run, the state has an abstraction that is a list, empty
\* or not, route_after_abstraction returns "continue" on it, and the node
\* its "continue" branch names was the one triggered.
C35_AbstractionNeverNull ==
  step >= 1 =>
    /\ ~IsNone(state, "abstraction")
    /\ DOMAIN state.abstraction = 1..Len(state.abstraction)
    /\ route_after_abstraction(state) = "continue"
    /\ trace[1] = "abstraction"
    /\ (exec.node = "abstraction" =>
          /\ IsSome(exec.answer) /\ exec.patch = [abstraction |-> exec.answer.value]
          /\ "abduction_unfocused" \in next)

\* Abstraction found nothing: the empty list was written, the run goes on
C35_Witness ==
  /\ step = 1 /\ exec.node = "abstraction"
  /\ ~IsNone(state, "abstraction") /\ state.abstraction = <<>>
  /\ route_after_abstraction(state) = "continue"
  /\ next = {"abduction_unfocused"}

\* C36: when the executor of AbductionFocused returns at most top_k
\* hypotheses, the patch of the node holds the executor's answer as it is:
\* the same hypotheses in the same order, none sampled away.
C36_FewHypothesesPassUnchanged ==
  (call.fn = "n_abduction_focused" /\ call.done
     /\ Len(call.answer.hypotheses) <= call.top_k) =>
    /\ call.patch = [abduction_focused |-> call.answer]
    /\ call.patch.abduction_focused.hypotheses = call.answer.hypotheses

\* exactly top_k = 2 hypotheses of different diagnoses came back and were kept
C36_Witness ==
  /\ call.fn = "n_abduction_focused" /\ call.done
  /\ call.top_k = 2 /\ Len(call.answer.hypotheses) = 2
  /\ call.answer.hypotheses[1] # call.answer.hypotheses[2]
  /\ call.patch.abduction_focused.hypotheses = call.answer.hypotheses

\* C37: call_llm goes on to a further attempt only after a reply that is
\* not JSON.  The count of attempts changes only by one invalid reply (plus
\* one, nothing else touched but the failure at the last attempt) or by the
\* return of a reply (back to zero with the node's step); any other failure
\* ends the run in the step it occurs in, whatever the number of attempts
\* made, with no attempt added, and nothing is attempted after it.
C37_OnlyInvalidJsonRetried ==
  [][/\ (attempts' # attempts =>
          \/ /\ attempts' = attempts + 1
             /\ UNCHANGED <<state, next, step, trace, log>>
             /\ \/ UNCHANGED <<status, result>>
                \/ result' = Raised("RuntimeError")
          \/ attempts' = 0 /\ step' = step + 1)
     /\ ((result' = Raised("Exception") /\ result # result') =>
          /\ status = "running" /\ status' = "failed"
          /\ attempts' = attempts /\ attempts < MaxRetries
          /\ UNCHANGED <<state, next, step, trace, log>>)
     /\ (status = "failed" => attempts' = attempts)]_vars

\* the fourth attempt of the ranking call failed otherwise than by invalid
\* JSON after three invalid replies: raised with six attempts left
C37_Witness ==
  /\ status = "failed" /\ result = Raised("Exception")
  /\ attempts = 3 /\ next = {"ranking"}

\* C38: what run_with_human_log returns for a run that reached END is the
\* left fold of the shallow merge over the patches of the executed nodes,
\* from the inputs.  Step by step: before the first node the state is the
\* inputs; a step that executes a node takes the state to the merge of the
\* state and that node's patch, and writes the node's log entry; no other
\* step (none of logging among them) touches the state or the inputs; and
\* the value returned is the state when no task is left.
C38_FinalStateIsFoldOfPatches ==
  [][/\ (step = 0 => state = inputs)
     /\ step' \in {step, step + 1}
     /\ (step' = step + 1 =>
          /\ state' = Merge(state, exec'.patch)
          /\ trace' = Append(trace, exec'.node)
          /\ log' = Append(log, NODE_TITLES[exec'.node]))
     /\ (step' = step => UNCHANGED <<state, trace, log, exec>>)
     /\ inputs' = inputs
     /\ ((result'.kind = "returned" /\ result.kind # "returned") =>
          /\ next = {} /\ UNCHANGED state
          /\ result'.final_state = state)]_vars

\* a returned full run: the final state has the inputs' own fields (iter
\* counted up by Induction), the second ranking and not the first one's
\* flag, and the fields of the nodes before it
C38_Witness ==
  /\ result.kind = "returned" /\ trace = FullPath /\ Len(log) = Len(FullPath)
  /\ result.final_state = state
  /\ \A k \in DOMAIN inputs \ {"iter"} : result.final_state[k] = inputs[k]
  /\ result.final_state.iter = inputs.iter + 1
  /\ exec.node = "ranking" /\ result.final_state.ranking = exec.patch.ranking
  /\ result.final_state.reranked = TRUE
  /\ Len(result.final_state.ranking.hypotheses) = MaxHyp
  /\ Len(result.final_state.deduction.hypotheses) = 1
  /\ result.final_state # exec.patch

\* the diagnosis of h, normalized, is the normalized form of an entry of ds
MatchesSome(h, ds) ==
  \E j \in 1..Len(ds) : norm_diag(ds[j]) = norm_diag(GetDiagnosis(h))

\* the position in ds of the first entry h matches
FirstMatch(h, ds) ==
  CHOOSE j \in 1..Len(ds) :
    /\ norm_diag(ds[j]) = norm_diag(GetDiagnosis(h))
    /\ \A i \in 1..(j - 1) : norm_diag(ds[i]) # norm_diag(GetDiagnosis(h))

\* C39 as stated: reorder_hypotheses_like returns a permutation of
\* output_hypotheses, every element once and none dropped: first the
\* elements whose normalized diagnosis matches an entry of input_diagnoses,
\* in the order of input_diagnoses, then the others in their original
\* relative order.
C39_ReorderIsPermutation ==
  (call.fn = "reorder_hypotheses_like" /\ call.done) =>
    LET given == call.output_hypotheses
        ds == call.input_diagnoses
        out == call.out
        N == Len(given)
    IN /\ Len(out) = N
       /\ \E perm \in [1..N -> 1..N] :
            /\ \A i, j \in 1..N : i # j => perm[i] # perm[j]
            /\ \A i \in 1..N : out[i] = given[perm[i]]
            /\ \E m \in 0..N :
                 /\ \A i \in 1..m : MatchesSome(out[i], ds)
                 /\ \A i \in 1..(m - 1) :
                      FirstMatch(out[i], ds) <= FirstMatch(out[i + 1], ds)
                 /\ \A i \in (m + 1)..N : ~MatchesSome(out[i], ds)
                 /\ \A i \in (m + 1)..(N - 1) : perm[i] < perm[i + 1]

====
